---- MODULE Spec2Model ----
(***************************************************************************)
(* Model of src/unix.rs of webbrowser-rs: open_browser_internal, the       *)
(* $BROWSER step open_on_unix_using_browser_env and is_text_browser.       *)
(* A Rust &str is a sequence of one-character strings.                     *)
(***************************************************************************)
EXTENDS Naturals, Integers, Sequences, FiniteSets, TLC

VARIABLES
    browser,   \* the Browser selector passed to open_browser_internal
    url,       \* the url argument
    envBROWSER,\* std::env::var("BROWSER"): <<>> when unset, <<value>> when set
    envDESKTOP,\* std::env::var("XDG_CURRENT_DESKTOP"): <<>> or <<value>>
    fsys,      \* what starting a program does in this environment: program -> kind
    pc,        \* position of the call
    segs,      \* browsers.split(':') of line 46
    idx,       \* index of the loop of line 46 in segs
    res,       \* the Result<ExitStatus> carried along the or_else chain
    spawned,   \* the processes the call has tried to start, in order
    other,     \* the same local state (browser .. spawned) of a call made on a
               \* second thread, while that thread is not the one running
    tid        \* the thread whose call the local variables above belong to

vars == <<browser, url, envBROWSER, envDESKTOP, fsys, pc, segs, idx, res, spawned,
          other, tid>>

----------------------------------------------------------------------------
\* Bounds of the model.
MaxStatus == 1
MaxSpecLen == 3
MaxUrlLen == 1

Statuses == 0..MaxStatus

\* Outcome of asking the OS to start a program.
Kinds == {"ok", "notfound", "denied"}

----------------------------------------------------------------------------
\* String primitives of the Rust standard library used by the source.

WhiteSpace == {" "}

\* str::replace: every non-overlapping match of pat, left to right, single pass
RECURSIVE Replace(_, _, _)
Replace(s, pat, rep) ==
    IF Len(s) < Len(pat) THEN s
    ELSE IF SubSeq(s, 1, Len(pat)) = pat
         THEN rep \o Replace(SubSeq(s, Len(pat) + 1, Len(s)), pat, rep)
         ELSE <<s[1]>> \o Replace(Tail(s), pat, rep)

\* str::split(char): the pieces between separators, empty pieces included
RECURSIVE Split(_, _)
Split(s, sep) ==
    IF \A i \in 1..Len(s) : s[i] # sep THEN <<s>>
    ELSE LET i == CHOOSE j \in 1..Len(s) :
                      s[j] = sep /\ \A k \in 1..(j - 1) : s[k] # sep
         IN  <<SubSeq(s, 1, i - 1)>> \o Split(SubSeq(s, i + 1, Len(s)), sep)

\* str::split_whitespace: the maximal runs of non-whitespace
RECURSIVE SplitWhitespace(_)
SplitWhitespace(s) ==
    IF s = <<>> THEN <<>>
    ELSE IF s[1] \in WhiteSpace THEN SplitWhitespace(Tail(s))
    ELSE LET n == CHOOSE j \in 1..Len(s) :
                      /\ \A k \in 1..j : s[k] \notin WhiteSpace
                      /\ (j = Len(s) \/ s[j + 1] \in WhiteSpace)
         IN  <<SubSeq(s, 1, n)>> \o SplitWhitespace(SubSeq(s, n + 1, Len(s)))

\* str::contains(&str)
Contains(s, pat) ==
    \E i \in 1..(Len(s) + 1) :
        i + Len(pat) - 1 <= Len(s) /\ SubSeq(s, i, i + Len(pat) - 1) = pat

\* str::ends_with
EndsWith(s, suf) ==
    Len(s) >= Len(suf) /\ SubSeq(s, Len(s) - Len(suf) + 1, Len(s)) = suf

----------------------------------------------------------------------------
\* Program names that occur in the source.

xdg_open == <<"x","d","g","-","o","p","e","n">>
kioclient == <<"k","i","o","c","l","i","e","n","t">>
gvfs_open == <<"g","v","f","s","-","o","p","e","n">>
gnome_open == <<"g","n","o","m","e","-","o","p","e","n">>
open == <<"o","p","e","n">>
x_www_browser == <<"x","-","w","w","w","-","b","r","o","w","s","e","r">>
exec == <<"e","x","e","c">>

Launchers == {xdg_open, kioclient, gvfs_open, gnome_open, open, x_www_browser}

TEXT_BROWSERS ==
    << <<"l","y","n","x">>, <<"l","i","n","k","s">>, <<"l","i","n","k","s","2">>,
       <<"e","l","i","n","k","s">>, <<"w","3","m">>, <<"e","w","w">>,
       <<"n","e","t","r","i","k">>, <<"r","e","t","a","w","q">> >>

\* mutation of is_text_browser: the suffix test without the '/'
is_text_browser_suffix(command) ==
    \E i \in 1..Len(TEXT_BROWSERS) : EndsWith(command, TEXT_BROWSERS[i])

\* is_text_browser, lines 84-91
is_text_browser(command) ==
    \E i \in 1..Len(TEXT_BROWSERS) :
        \/ command = TEXT_BROWSERS[i]
        \/ EndsWith(command, <<"/">> \o TEXT_BROWSERS[i])

----------------------------------------------------------------------------
\* Result<ExitStatus>
Ok(status) == [ok |-> TRUE, status |-> status, kind |-> "", msg |-> "", src |-> 0]
\* Error::new(kind, msg); src is the attempt (index in spawned) an io error came from
Err(kind, msg, src) == [ok |-> FALSE, status |-> -1, kind |-> kind, msg |-> msg, src |-> src]
NoResult == [ok |-> FALSE, status |-> -1, kind |-> "", msg |-> "", src |-> 0]

\* the io::Error of a failed Command::status / Command::spawn
IoErrorKind(k) == IF k = "notfound" THEN "NotFound" ELSE "PermissionDenied"
IoErr(k, n) == Err(IoErrorKind(k), "os error", n)

----------------------------------------------------------------------------
\* The $BROWSER step: the pure part of one loop iteration, lines 51-64.

\* lines 51-54: %s -> url, then %c -> ':', then %% -> '%'
Cmdline(seg, u) ==
    Replace(Replace(Replace(seg, <<"%","s">>, u), <<"%","c">>, <<":">>),
            <<"%","%">>, <<"%">>)

\* line 55
Cmdarr(seg, u) == SplitWhitespace(Cmdline(seg, u))

\* mutation of AppendsUrl: the url is never appended
AppendsUrlNever(seg) == FALSE

\* line 61: the url is appended only if the segment as written has no %s
AppendsUrl(seg) == ~Contains(seg, <<"%","s">>)

\* lines 56-64: program and arguments of the Command; needs Cmdarr non-empty
CommandOf(seg, u) ==
    Cmdarr(seg, u) \o (IF AppendsUrl(seg) THEN <<u>> ELSE <<>>)

\* line 66: cmd.status() (blocking) for a text browser, spawn otherwise
Blocking(browser_cmd) == is_text_browser(browser_cmd)

----------------------------------------------------------------------------
\* Starting processes.

\* what starting prog does: fixed by the environment once known
Starts(prog, k) == IF prog \in DOMAIN fsys THEN k = fsys[prog] ELSE k \in Kinds
Learn(prog, k) ==
    [p \in (DOMAIN fsys) \cup {prog} |-> IF p = prog THEN k ELSE fsys[p]]

\* One entry of spawned: who tried (by: "env" or the or_else of the chain), the
\* command, whether the call waited for the exit, what the OS did (kind), the
\* exit status seen if waited for (-1 otherwise), the Result the launch gave
Attempt(by, cmd, wait, k, exit, ret) ==
    [by |-> by, cmd |-> cmd, wait |-> wait, kind |-> k, exit |-> exit, ret |-> ret]

\* Command::status(): start the process and wait for its exit status
CommandStatus(by, cmd) ==
    \E k \in Kinds :
        /\ Starts(cmd[1], k)
        /\ fsys' = Learn(cmd[1], k)
        /\ \/ /\ k = "ok"
              /\ \E s \in Statuses :
                    /\ spawned' = Append(spawned, Attempt(by, cmd, TRUE, k, s, Ok(s)))
                    /\ res' = Ok(s)
           \/ /\ k # "ok"
              /\ res' = IoErr(k, Len(spawned) + 1)
              /\ spawned' = Append(spawned, Attempt(by, cmd, TRUE, k, -1, res'))

\* line 69, cmd.spawn().status(): the child is started and not waited for
\* ("so we don't block"); the status value handed back is not tied to its exit
CommandSpawnStatus(by, cmd) ==
    \E k \in Kinds :
        /\ Starts(cmd[1], k)
        /\ fsys' = Learn(cmd[1], k)
        /\ \/ /\ k = "ok"
              /\ \E s \in Statuses :
                    /\ res' = Ok(s)
                    /\ spawned' = Append(spawned, Attempt(by, cmd, FALSE, k, -1, res'))
           \/ /\ k # "ok"
              /\ res' = IoErr(k, Len(spawned) + 1)
              /\ spawned' = Append(spawned, Attempt(by, cmd, FALSE, k, -1, res'))

----------------------------------------------------------------------------
\* open_browser_internal, lines 12-41

\* mutation of IsDefault: every selector takes the Default arm
AnySelector(b) == TRUE

\* line 13-14: the match arm taken
IsDefault(b) == b = "Default"

\* mutation of Chain: gnome-open tried before gvfs-open
ChainGnomeFirst ==
    <<"xdg-open", "kde", "gnome-open", "gvfs-open", "open", "kioclient",
      "x-www-browser">>

\* mutation of Chain: the unconditional kioclient exec tried before open
ChainKioclientBeforeOpen ==
    <<"xdg-open", "kde", "gvfs-open", "gnome-open", "kioclient", "open",
      "x-www-browser">>

\* the order of the or_else calls of lines 15-35
Chain == <<"xdg-open", "kde", "gvfs-open", "gnome-open", "open", "kioclient",
           "x-www-browser">>

After(stage) ==
    LET i == CHOOSE j \in 1..Len(Chain) : Chain[j] = stage
    IN  IF i = Len(Chain) THEN "done" ELSE Chain[i + 1]

\* mutation of OrElseRuns: the closure runs whatever the Result
OrElseAlways(r) == TRUE

\* Result::or_else: the closure runs only on Err
OrElseRuns(r) == ~r.ok

\* line 18
IsKDE(desktop) == desktop = <<"KDE">>

\* lines 12-14, 36-39
Call ==
    /\ pc = "start"
    /\ IF IsDefault(browser)
       THEN pc' = "env" /\ res' = res
       ELSE /\ res' = Err("NotFound",
                  "Only the default browser is supported on this platform right now", 0)
            /\ pc' = "done"
    /\ UNCHANGED <<other, tid, browser, url, envBROWSER, envDESKTOP, fsys, segs, idx, spawned>>

\* lines 44-46: read BROWSER; unset is the Err of line 45
EnvVar ==
    /\ pc = "env"
    /\ IF envBROWSER = <<>>
       THEN /\ res' = Err("NotFound", "BROWSER env not set", 0)
            /\ pc' = Chain[1]
            /\ UNCHANGED <<segs, idx>>
       ELSE /\ segs' = Split(envBROWSER[1], ":")
            /\ idx' = 1
            /\ pc' = "loop"
            /\ res' = res
    /\ UNCHANGED <<other, tid, browser, url, envBROWSER, envDESKTOP, fsys, spawned>>

\* line 48: an empty segment is skipped
LoopSkipEmpty ==
    /\ pc = "loop" /\ idx <= Len(segs)
    /\ segs[idx] = <<>>
    /\ idx' = idx + 1
    /\ UNCHANGED <<other, tid, browser, url, envBROWSER, envDESKTOP, fsys, pc, segs, res, spawned>>

\* line 56: cmdarr[0] of an empty Vec panics (index out of bounds)
LoopPanic ==
    /\ pc = "loop" /\ idx <= Len(segs)
    /\ segs[idx] # <<>>
    /\ Cmdarr(segs[idx], url) = <<>>
    /\ pc' = "panicked"
    /\ UNCHANGED <<other, tid, browser, url, envBROWSER, envDESKTOP, fsys, segs, idx, res, spawned>>

\* mutation of ReturnsStatus: only a zero status is returned
ReturnsOnlyZero(r) == r.ok /\ r.status = 0

\* mutation of ReturnsStatus: the loop goes on after a status
ReturnsNever(r) == FALSE

\* lines 71-73: the first Ok(status) is returned
ReturnsStatus(r) == r.ok

\* lines 48-74: one segment resolved and tried
LoopAttempt ==
    /\ pc = "loop" /\ idx <= Len(segs)
    /\ segs[idx] # <<>>
    /\ Cmdarr(segs[idx], url) # <<>>
    /\ LET cmd == CommandOf(segs[idx], url)
       IN  IF Blocking(Cmdarr(segs[idx], url)[1])
           THEN CommandStatus("env", cmd)
           ELSE CommandSpawnStatus("env", cmd)
    /\ IF ReturnsStatus(res')
       THEN pc' = Chain[1] /\ idx' = idx      \* line 72: return Ok(status)
       ELSE pc' = pc /\ idx' = idx + 1
    /\ UNCHANGED <<other, tid, browser, url, envBROWSER, envDESKTOP, segs>>

\* lines 76-79: no segment gave a status
LoopEnd ==
    /\ pc = "loop" /\ idx > Len(segs)
    /\ res' = Err("NotFound", "No valid command in $BROWSER", 0)
    /\ pc' = Chain[1]
    /\ UNCHANGED <<other, tid, browser, url, envBROWSER, envDESKTOP, fsys, segs, idx, spawned>>

\* One or_else of the chain whose closure is Command::new(..).status():
\* lines 15, 24, 25, 26, 27-29
OrElseStatus(stage, cmd) ==
    /\ pc = stage
    /\ IF OrElseRuns(res)
       THEN CommandStatus(stage, cmd)
       ELSE UNCHANGED <<res, spawned, fsys>>
    /\ pc' = After(stage)
    /\ UNCHANGED <<other, tid, browser, url, envBROWSER, envDESKTOP, segs, idx>>

\* line 15
OrElseXdgOpen == OrElseStatus("xdg-open", <<xdg_open, url>>)

\* lines 16-23: kioclient exec, under KDE only; otherwise the error is passed on
OrElseKde ==
    /\ pc = "kde"
    /\ IF OrElseRuns(res) /\ envDESKTOP # <<>> /\ IsKDE(envDESKTOP)
       THEN CommandStatus("kde", <<kioclient, exec, url>>)
       ELSE UNCHANGED <<res, spawned, fsys>>
    /\ pc' = After("kde")
    /\ UNCHANGED <<other, tid, browser, url, envBROWSER, envDESKTOP, segs, idx>>

\* line 24
OrElseGvfsOpen == OrElseStatus("gvfs-open", <<gvfs_open, url>>)

\* line 25
OrElseGnomeOpen == OrElseStatus("gnome-open", <<gnome_open, url>>)

\* line 26
OrElseOpen == OrElseStatus("open", <<open, url>>)

\* lines 27-29
OrElseKioclient == OrElseStatus("kioclient", <<kioclient, exec, url>>)

\* mutation of SpawnResult: a failed spawn is reported as success too
SpawnResultAlwaysOk(k, e) == Ok(0)

\* lines 31-34: Ok(from_raw(0)) if the spawn worked, otherwise Err(e)
SpawnResult(k, e) == IF k = "ok" THEN Ok(0) ELSE e

\* lines 30-35: spawn x-www-browser; Ok(from_raw(0)) if the spawn worked,
\* otherwise the error e the closure was given
OrElseXWwwBrowser ==
    /\ pc = "x-www-browser"
    /\ IF OrElseRuns(res)
       THEN \E k \in Kinds :
                /\ Starts(x_www_browser, k)
                /\ fsys' = Learn(x_www_browser, k)
                /\ spawned' = Append(spawned,
                       Attempt("x-www-browser", <<x_www_browser, url>>, FALSE, k, -1,
                               IF k = "ok" THEN Ok(0) ELSE IoErr(k, Len(spawned) + 1)))
                /\ res' = SpawnResult(k, res)
       ELSE UNCHANGED <<res, spawned, fsys>>
    /\ pc' = After("x-www-browser")
    /\ UNCHANGED <<other, tid, browser, url, envBROWSER, envDESKTOP, segs, idx>>

Next ==
    \/ Call
    \/ EnvVar
    \/ LoopSkipEmpty
    \/ LoopPanic
    \/ LoopAttempt
    \/ LoopEnd
    \/ OrElseXdgOpen
    \/ OrElseKde
    \/ OrElseGvfsOpen
    \/ OrElseGnomeOpen
    \/ OrElseOpen
    \/ OrElseKioclient
    \/ OrElseXWwwBrowser

----------------------------------------------------------------------------
\* Inputs and environments.

RECURSIVE Strs(_, _)
Strs(A, n) ==
    IF n = 0 THEN {<<>>}
    ELSE LET S == Strs(A, n - 1) IN S \cup {Append(s, c) : s \in S, c \in A}

ExampleUrl ==
    <<"h","t","t","p",":","/","/","e","x","a","m","p","l","e",".","c","o","m">>
\* a url with a percent-encoded byte, "u/%c3"
EncodedUrl == <<"u","/","%","c","3">>
firefox == <<"f","i","r","e","f","o","x">>
chromium == <<"c","h","r","o","m","i","u","m">>
lynx == TEXT_BROWSERS[1]

\* values of BROWSER for the fallback-centred specification
BrowserValues ==
    { <<>>,                                             \* unset
      << <<>> >>,                                       \* set, empty
      << firefox \o <<" ","%","s",":">> \o chromium >>, \* "firefox %s:chromium"
      << lynx >>,
      << <<" ">> >> }                                   \* set, one blank

DesktopValues == { <<>>, <<"KDE">>, <<"kde">>, <<"GNOME">> }

InitCall ==
    /\ pc = "start"
    /\ segs = <<>>
    /\ idx = 0
    /\ res = NoResult
    /\ spawned = <<>>

\* no call on a second thread
NoCall ==
    [browser |-> "Default", url |-> <<>>, pc |-> "absent", segs |-> <<>>, idx |-> 0,
     res |-> NoResult, spawned |-> <<>>]

\* every environment of the system launchers, a few values of BROWSER
Init ==
    /\ InitCall
    /\ other = NoCall /\ tid = 1
    /\ browser \in {"Default", "Firefox"}
    /\ url = ExampleUrl
    /\ envBROWSER \in BrowserValues
    /\ envDESKTOP \in DesktopValues
    /\ fsys \in [Launchers -> Kinds]

Spec == Init /\ [][Next]_vars

\* Two calls on two threads. They share the process environment and the
\* programs installed; everything else of a call is local to its thread.

\* the local state of the call of the running thread
Locals ==
    [browser |-> browser, url |-> url, pc |-> pc, segs |-> segs, idx |-> idx,
     res |-> res, spawned |-> spawned]

\* the scheduler lets the other thread run: its call's local state is loaded
Yield ==
    /\ other.pc # "absent"
    /\ browser' = other.browser
    /\ url' = other.url
    /\ pc' = other.pc
    /\ segs' = other.segs
    /\ idx' = other.idx
    /\ res' = other.res
    /\ spawned' = other.spawned
    /\ other' = Locals
    /\ tid' = 3 - tid
    /\ UNCHANGED <<envBROWSER, envDESKTOP, fsys>>

NextPair == Next \/ Yield

\* values of BROWSER for two concurrent calls
PairBrowserValues ==
    { <<>>,
      << <<"a"," ","%","s",":","c">> >>,                \* "a %s:c"
      << lynx \o <<":",":"," ">> >> }                    \* "lynx:: "

\* the environments where at most one launcher is other than missing
PairSystems ==
    { [l \in Launchers |-> IF l = p THEN k ELSE "notfound"] :
        p \in Launchers, k \in Kinds }

\* two calls about to start, with their own selector and url
InitPair ==
    /\ InitCall
    /\ tid = 1
    /\ browser = "Default"
    /\ url = <<"u">>
    /\ \E b \in {"Default", "Firefox"}, u \in {<<"u">>, <<"v">>} :
           other = [browser |-> b, url |-> u, pc |-> "start", segs |-> <<>>,
                    idx |-> 0, res |-> NoResult, spawned |-> <<>>]
    /\ envBROWSER \in PairBrowserValues
    /\ envDESKTOP \in { <<>>, <<"KDE">> }
    /\ fsys \in PairSystems

SpecPair == InitPair /\ [][NextPair]_vars

\* characters of the BROWSER values and urls enumerated exhaustively
SpecAlphabet == {"%", "s", "c", ":", " ", "a"}
UrlAlphabet == {"u", "%", "c", " "}

\* program names around the text browsers: the name, a path to it, and names
\* that only contain it
NearTextBrowsers ==
    UNION { { n, <<"/">> \o n, <<"/","b","/">> \o n, <<"x">> \o n, n \o <<"x">>,
              n \o <<"/">> } :
            n \in { TEXT_BROWSERS[i] : i \in 1..Len(TEXT_BROWSERS) } }

\* all short BROWSER values with all short urls; the documented example and the
\* names around the text browsers with the example url
EnvInputs ==
    ({ << v >> : v \in Strs(SpecAlphabet, MaxSpecLen) } \X Strs(UrlAlphabet, MaxUrlLen))
    \cup
    (({ << firefox \o <<" ","%","s",":">> \o chromium >> }
        \cup { << n \o <<" ","%","s">> >> : n \in NearTextBrowsers \cup {firefox} })
     \X {ExampleUrl, EncodedUrl})

\* every short value of BROWSER and url; no system launcher installed
InitEnv ==
    /\ InitCall
    /\ other = NoCall /\ tid = 1
    /\ browser = "Default"
    /\ \E in \in EnvInputs : envBROWSER = in[1] /\ url = in[2]
    /\ envDESKTOP = <<>>
    /\ fsys = [l \in Launchers |-> "notfound"]

SpecEnv == InitEnv /\ [][Next]_vars

----------------------------------------------------------------------------
\* Properties.

EnvAttempts == SelectSeq(spawned, LAMBDA a : a.by = "env")
SysAttempts == SelectSeq(spawned, LAMBDA a : a.by # "env")
EnvStarted == \E i \in 1..Len(spawned) : spawned[i].by = "env" /\ spawned[i].kind = "ok"
Returned == pc = "done"

\* the launcher commands the documentation lists, in its order
ListedLaunchers ==
    << <<xdg_open, url>> >>
    \o (IF envDESKTOP = <<"KDE">> THEN << <<kioclient, exec, url>> >> ELSE <<>>)
    \o << <<gvfs_open, url>>, <<gnome_open, url>>, <<open, url>>,
          <<kioclient, exec, url>>, <<x_www_browser, url>> >>

\* C1: after the $BROWSER step has failed the system launchers are tried in the
\* listed order (xdg-open; kioclient exec under KDE only; gvfs-open; gnome-open;
\* open; kioclient exec; x-www-browser): at every moment the launchers tried so
\* far are a prefix of that list, every one but the last tried has failed, and
\* a call that has returned stopped either at a success or at the end of the list.
C1_FallbackOrder ==
    LET F == SysAttempts
        L == ListedLaunchers
    IN  /\ Len(F) <= Len(L)
        /\ \A i \in 1..Len(F) : F[i].cmd = L[i]
        /\ \A i \in 1..(Len(F) - 1) : F[i].kind # "ok"
        /\ (Returned /\ browser = "Default" /\ ~EnvStarted)
              => /\ F # <<>>
                 /\ (F[Len(F)].kind = "ok" \/ Len(F) = Len(L))

\* C1 witness: under KDE every launcher before x-www-browser failed, in order,
\* and x-www-browser started
C1_Witness ==
    /\ Returned /\ envDESKTOP = <<"KDE">>
    /\ Len(SysAttempts) = 7
    /\ SysAttempts[7].kind = "ok"

\* C3: the system launchers are tried only if the $BROWSER step failed entirely:
\* once a $BROWSER segment has started, it is the last process tried, no system
\* launcher has been or is tried, and the Result carried (and returned) is the
\* one that segment's launch gave.
C3_FallbackOnlyAfterEnvFailure ==
    \A i \in 1..Len(spawned) :
        (spawned[i].by = "env" /\ spawned[i].kind = "ok")
            => /\ i = Len(spawned)
               /\ SysAttempts = <<>>
               /\ res = spawned[i].ret
               /\ res.ok

\* C3 witness: a call returned after a $BROWSER segment started
C3_Witness == Returned /\ EnvStarted

\* C7 as claimed: when every attempt of the chain failed to start, the call
\* fails with kind NotFound, whatever the reasons of the failures.
C7_AllFailedIsNotFound ==
    (/\ Returned /\ browser = "Default"
     /\ \A i \in 1..Len(spawned) : spawned[i].kind # "ok")
        => (~res.ok /\ res.kind = "NotFound")

\* C9 as claimed: BROWSER unset, xdg-open absent and open present: the call
\* returns the status of the open process.
C9_OpenWhenXdgOpenAbsent ==
    (/\ Returned /\ browser = "Default" /\ envBROWSER = <<>>
     /\ fsys[xdg_open] = "notfound" /\ fsys[open] = "ok")
        => /\ res.ok
           /\ spawned[Len(spawned)].cmd = <<open, url>>
           /\ res.status = spawned[Len(spawned)].exit

\* the launchers the chain tries between xdg-open and open all fail to start
NoneBeforeOpenStarts ==
    /\ fsys[gvfs_open] # "ok"
    /\ fsys[gnome_open] # "ok"
    /\ (envDESKTOP = <<"KDE">> => fsys[kioclient] # "ok")

\* C9 amended: BROWSER unset, xdg-open absent and open present: the call
\* succeeds; and when none of the launchers tried between xdg-open and open
\* (kioclient exec under KDE, gvfs-open, gnome-open) starts, it succeeds via
\* open and returns the status of the open process.
C9_OpenWhenEarlierLaunchersFail ==
    (/\ Returned /\ browser = "Default" /\ envBROWSER = <<>>
     /\ fsys[xdg_open] = "notfound" /\ fsys[open] = "ok")
        => /\ res.ok
           /\ NoneBeforeOpenStarts
                => /\ spawned[Len(spawned)].cmd = <<open, url>>
                   /\ res.status = spawned[Len(spawned)].exit
                   /\ res = spawned[Len(spawned)].ret

\* C9 witness: such a call returned open's non-zero exit status
C9_Witness ==
    /\ Returned /\ envBROWSER = <<>>
    /\ fsys[xdg_open] = "notfound" /\ fsys[open] = "ok" /\ fsys[kioclient] = "ok"
    /\ NoneBeforeOpenStarts
    /\ spawned # <<>>
    /\ spawned[Len(spawned)].cmd = <<open, url>>
    /\ res = Ok(1)

\* C10: a selector other than Default returns a NotFound error at once: the
\* call is only ever at its start or returned, nothing was spawned, neither
\* the $BROWSER step nor the launcher chain was entered.
C10_NonDefaultNotFound ==
    browser # "Default"
        => /\ pc \in {"start", "done"}
           /\ spawned = <<>>
           /\ segs = <<>>
           /\ Returned => (~res.ok /\ res.kind = "NotFound")

\* C10 witness: a call with a non-default selector returned
C10_Witness == Returned /\ browser # "Default" /\ ~res.ok

----------------------------------------------------------------------------
\* Properties of the $BROWSER step.

NonEmpty(ss) == SelectSeq(ss, LAMBDA x : x # <<>>)
\* the non-empty ':'-segments of BROWSER, left to right
Specs == IF envBROWSER = <<>> THEN <<>> ELSE NonEmpty(Split(envBROWSER[1], ":"))
ExampleBROWSER == << firefox \o <<" ","%","s",":">> \o chromium >>

\* C2: the non-empty segments of BROWSER are tried strictly left to right: the
\* i-th process tried by the step is the command of the i-th non-empty segment
\* and every segment the loop has passed was tried; a segment that failed to
\* start is followed by the next one (the step ends without a status only once
\* all were tried); nothing is tried after a segment that started. With
\* BROWSER="firefox %s:chromium" and url http://example.com the attempts are
\* `firefox http://example.com`, then `chromium http://example.com`.
C2_EnvSegmentsInOrder ==
    LET E == EnvAttempts
    IN  /\ Len(E) <= Len(Specs)
        /\ \A i \in 1..Len(E) : E[i].cmd = CommandOf(Specs[i], url)
        /\ \A i \in 1..(Len(E) - 1) : E[i].kind # "ok"
        /\ pc = "loop" => Len(E) = Len(NonEmpty(SubSeq(segs, 1, idx - 1)))
        /\ (pc \notin {"start", "env", "loop", "panicked"} /\ ~EnvStarted)
              => Len(E) = Len(Specs)
        /\ (envBROWSER = ExampleBROWSER /\ url = ExampleUrl)
              => /\ Len(E) >= 1 => E[1].cmd = <<firefox, ExampleUrl>>
                 /\ Len(E) >= 2 => E[2].cmd = <<chromium, ExampleUrl>>
                 /\ pc = "done" => Len(E) >= 1

\* C2 witness: firefox was unavailable and chromium started
C2_Witness ==
    /\ envBROWSER = ExampleBROWSER /\ url = ExampleUrl /\ Returned
    /\ Len(EnvAttempts) = 2
    /\ EnvAttempts[1].kind = "notfound"
    /\ EnvAttempts[2].kind = "ok"
    /\ EnvAttempts[2].cmd = <<chromium, ExampleUrl>>

\* a stand-in for the url that no substitution and no split touches
UrlMark == "<url>"
HasUrlPlaceholder(seg) == \E j \in 1..(Len(seg) - 1) : seg[j] = "%" /\ seg[j + 1] = "s"
\* each argument with the stand-in replaced by the url
PutUrl(args, u) == [i \in 1..Len(args) |-> Replace(args[i], <<UrlMark>>, u)]

\* C4 as claimed: for a segment containing %s the command tried is the one the
\* segment resolves to with the url put, literally and unchanged, where %s
\* stood, and the url is not appended as well.
C4_UrlLiteralAtPlaceholder ==
    \A i \in 1..Len(EnvAttempts) :
        HasUrlPlaceholder(Specs[i])
            => EnvAttempts[i].cmd = PutUrl(Cmdarr(Specs[i], <<UrlMark>>), url)

\* the template of a segment with its escapes resolved in the documented order,
\* %c then %%
Template(seg) == Replace(Replace(seg, <<"%","c">>, <<":">>), <<"%","%">>, <<"%">>)

\* C5: for a segment without %s the command tried is the whitespace-split
\* template followed by the url, unchanged, as one single last argument.
C5_UrlAppendedOnce ==
    \A i \in 1..Len(EnvAttempts) :
        ~HasUrlPlaceholder(Specs[i])
            => EnvAttempts[i].cmd = SplitWhitespace(Template(Specs[i])) \o <<url>>

\* C5 witness: a template with an escape was tried with a url that is a blank,
\* passed as one argument
C5_Witness ==
    /\ Len(EnvAttempts) >= 1
    /\ Specs[1] = <<"a","%","c">>
    /\ url = <<" ">>
    /\ EnvAttempts[1].cmd = << <<"a",":">>, <<" ">> >>

\* the escapes read left to right, each '%' taken with the character after it:
\* %s is the url, %c a colon, %% a percent sign
RECURSIVE Unescape(_, _)
Unescape(seg, u) ==
    IF seg = <<>> THEN <<>>
    ELSE IF Len(seg) >= 2 /\ seg[1] = "%" /\ seg[2] \in {"s", "c", "%"}
         THEN (CASE seg[2] = "s" -> u
                 [] seg[2] = "c" -> <<":">>
                 [] seg[2] = "%" -> <<"%">>)
              \o Unescape(SubSeq(seg, 3, Len(seg)), u)
         ELSE <<seg[1]>> \o Unescape(Tail(seg), u)

\* C6 as claimed: every %c of a segment becomes a colon and every %% a percent
\* sign in the command tried, also where escapes touch each other or %s (urls
\* without '%', so that only the segment's own escapes are in play).
C6_EscapesResolved ==
    \A i \in 1..Len(EnvAttempts) :
        (\A j \in 1..Len(url) : url[j] # "%")
            => LET cmd == EnvAttempts[i].cmd
                   args == IF HasUrlPlaceholder(Specs[i]) THEN cmd
                           ELSE SubSeq(cmd, 1, Len(cmd) - 1)
               IN  args = SplitWhitespace(Unescape(Specs[i], url))

\* the text browsers the documentation names
TextBrowserSet ==
    { <<"l","y","n","x">>, <<"l","i","n","k","s">>, <<"l","i","n","k","s","2">>,
      <<"e","l","i","n","k","s">>, <<"w","3","m">>, <<"e","w","w">>,
      <<"n","e","t","r","i","k">>, <<"r","e","t","a","w","q">> }
NamesTextBrowser(prog) ==
    \E n \in TextBrowserSet :
        \/ prog = n
        \/ /\ Len(prog) > Len(n)
           /\ SubSeq(prog, Len(prog) - Len(n), Len(prog)) = <<"/">> \o n

\* C8: a $BROWSER command is launched with a blocking wait exactly when its
\* program name is a text browser of the set or a path ending in '/' and such a
\* name; every other command is started without waiting for its exit.
C8_BlockingIffTextBrowser ==
    \A i \in 1..Len(EnvAttempts) :
        EnvAttempts[i].wait <=> NamesTextBrowser(EnvAttempts[i].cmd[1])

\* C8 witness: /b/lynx was waited for
C8_Witness ==
    /\ Len(EnvAttempts) = 1
    /\ EnvAttempts[1].cmd[1] = <<"/","b","/","l","y","n","x">>
    /\ EnvAttempts[1].wait /\ EnvAttempts[1].kind = "ok" /\ EnvAttempts[1].exit = 1
    /\ Returned /\ res = Ok(1)

----------------------------------------------------------------------------
\* Properties of the whole chain, continued.

\* C11 as claimed: within one call no command (program and arguments) is
\* spawned a second time, in every environment, XDG_CURRENT_DESKTOP = "KDE"
\* included.
C11_NoCommandTwice ==
    \A i, j \in 1..Len(spawned) : i # j => spawned[i].cmd # spawned[j].cmd

\* C12 as claimed: when the whole chain is exhausted, the error returned is the
\* one of the last attempt made, the x-www-browser spawn (compared by kind, the
\* part of an io error that tells two failures apart).
C12_ErrorOfLastAttempt ==
    (/\ Returned /\ browser = "Default"
     /\ spawned # <<>>
     /\ \A i \in 1..Len(spawned) : spawned[i].kind # "ok")
        => /\ spawned[Len(spawned)].by = "x-www-browser"
           /\ ~res.ok
           /\ res.kind = spawned[Len(spawned)].ret.kind

\* C13: in the last step, x-www-browser is started without being waited for; if
\* the spawn worked the call returns success with status zero, no exit code
\* being looked at; if it failed the call returns an error.
C13_XWwwBrowserSpawn ==
    \A i \in 1..Len(spawned) :
        spawned[i].by = "x-www-browser"
            => /\ i = Len(spawned)
               /\ spawned[i].cmd = <<x_www_browser, url>>
               /\ ~spawned[i].wait /\ spawned[i].exit = -1
               /\ spawned[i].kind = "ok" => res = Ok(0)
               /\ spawned[i].kind # "ok" => ~res.ok

\* C13 witness: the call returned Ok(0) from a started x-www-browser
C13_Witness ==
    /\ Returned /\ spawned # <<>>
    /\ spawned[Len(spawned)].by = "x-www-browser"
    /\ spawned[Len(spawned)].kind = "ok"
    /\ res = Ok(0)

\* C15 as claimed: whatever BROWSER and the url are, no segment aborts the
\* call: it goes on to an exit status or an error value.
C15_NeverAborts == pc # "panicked"

\* C16: an attempt that was waited for and gave an exit status, zero or not,
\* ends the chain: it is the last process tried and the call carries, and
\* returns, that status as a success.
C16_AnyStatusIsSuccess ==
    \A i \in 1..Len(spawned) :
        (spawned[i].wait /\ spawned[i].kind = "ok")
            => /\ i = Len(spawned)
               /\ res = Ok(spawned[i].exit)

\* C16 witness: lynx from $BROWSER exited with status 1 and the call returned
\* Ok(1) without trying a launcher
C16_Witness ==
    /\ Returned /\ Len(spawned) = 1
    /\ spawned[1].by = "env" /\ spawned[1].cmd[1] = lynx
    /\ spawned[1].wait /\ spawned[1].exit = 1
    /\ res = Ok(1)

\* C16 witness of the launcher side: gvfs-open exited with status 1
C16_LauncherNonZero ==
    /\ Returned /\ spawned # <<>>
    /\ spawned[Len(spawned)].by = "gvfs-open" /\ spawned[Len(spawned)].exit = 1
    /\ res = Ok(1)

----------------------------------------------------------------------------
\* Two concurrent calls.

\* the launcher commands the documentation lists, for url u
LaunchersFor(u) ==
    << <<xdg_open, u>> >>
    \o (IF envDESKTOP = <<"KDE">> THEN << <<kioclient, exec, u>> >> ELSE <<>>)
    \o << <<gvfs_open, u>>, <<gnome_open, u>>, <<open, u>>,
          <<kioclient, exec, u>>, <<x_www_browser, u>> >>

\* the number of leading segments of BROWSER that resolve to a program for url u
RECURSIVE Resolving(_, _)
Resolving(ss, u) ==
    IF ss = <<>> \/ Cmdarr(Head(ss), u) = <<>> THEN 0
    ELSE 1 + Resolving(Tail(ss), u)

\* What a call with local state t, run alone in this environment, has done by
\* the time it is where t is: the commands of the $BROWSER segments and then of
\* the launchers, in order, each with the outcome the environment gives its
\* program, up to the first that starts; and, once returned, the result that
\* sequence determines.
AsAlone(t) ==
    LET A == t.spawned
        E == SelectSeq(A, LAMBDA a : a.by = "env")
        F == SelectSeq(A, LAMBDA a : a.by # "env")
        L == LaunchersFor(t.url)
        S == Specs
        n == Resolving(S, t.url)
    IN  /\ A = E \o F
        /\ Len(E) <= n
        /\ \A i \in 1..Len(E) : E[i].cmd = CommandOf(S[i], t.url)
        /\ Len(F) <= Len(L)
        /\ \A i \in 1..Len(F) : F[i].cmd = L[i]
        /\ \A i \in 1..Len(A) :
              /\ A[i].cmd[1] \in DOMAIN fsys
              /\ A[i].kind = fsys[A[i].cmd[1]]
        /\ \A i \in 1..(Len(A) - 1) : A[i].kind # "ok"
        /\ F # <<>> => Len(E) = Len(S)
        /\ t.browser # "Default"
              => /\ A = <<>>
                 /\ t.pc \in {"start", "done"}
                 /\ t.pc = "done" => (~t.res.ok /\ t.res.kind = "NotFound")
        /\ t.pc = "panicked" => (Len(E) = n /\ n < Len(S) /\ F = <<>>)
        /\ (t.pc = "done" /\ t.browser = "Default")
              => IF A # <<>> /\ A[Len(A)].kind = "ok"
                 THEN t.res = A[Len(A)].ret
                 ELSE /\ Len(E) = Len(S)
                      /\ Len(F) = Len(L)
                      /\ t.res = F[Len(F) - 1].ret

\* C14: two calls running on two threads do not interfere: with the environment
\* unchanged, under every interleaving of their steps each call tries the
\* commands, and returns the result, that it would when run alone.
C14_ConcurrentCallsAsAlone ==
    /\ AsAlone(Locals)
    /\ other.pc # "absent" => AsAlone(other)

\* C14 witness: both calls are in the middle of the launcher chain at once, each
\* with processes tried, for different urls
C14_Witness ==
    /\ pc = "gvfs-open" /\ other.pc = "open"
    /\ spawned # <<>> /\ other.spawned # <<>>
    /\ url # other.url

====
